---- MODULE Spec2Model ----
(***************************************************************************)
(* A model of the pan-tilt tracking system of design_mirror.               *)
(*                                                                         *)
(* Control node (src/main.py, src/modules/pan_tilt.py, processing.py):     *)
(* one cycle selects the closest face, computes a pan and a tilt servo     *)
(* angle for every registered unit and publishes them as one MQTT message. *)
(* Actuation node (src/pi/mqtt_subscriber.py, src/pi/servo_controller.py): *)
(* on_message decodes the message and hands the per-servo targets to the   *)
(* ServoController.                                                        *)
(*                                                                         *)
(* src/pi/servo_controller.py holds two texts of class ServoController.    *)
(* Lines 14-125 (enclosed in a module-level string literal, hence not      *)
(* executed) define move_multiple_servos, the stepping driver on_message   *)
(* calls; lines 140-212 (the class the interpreter defines) have           *)
(* set_servo_angle with a clamp and set_multiple_servo_angles, and no      *)
(* move_multiple_servos.  The variable controller_class says which text    *)
(* is in force: "stepping" or "direct".                                    *)
(*                                                                         *)
(* Numbers.  Angles are exact rationals <<n, d>> (d >= 1, lowest terms):   *)
(* the floating-point rounding of the Python code is not modelled.         *)
(* Geometry is restricted to the integer lattice and to orientations that  *)
(* are multiples of 90 degrees, where sin, cos and atan2 are exact.        *)
(* None is the empty tuple <<>>.                                           *)
(*                                                                         *)
(* Specifications.  SpecControl: the cycles of main.py.  SpecRegistry: the *)
(* same from configurations with defective records.  SpecActuation:        *)
(* on_message as one step per message.  SpecDispatch: the channel, loss,   *)
(* and a batch as one step per write.  SpecFunctions: single calls of the  *)
(* functions of processing.py and of the step counts.                      *)
(***************************************************************************)
EXTENDS Integers, Sequences, FiniteSets, TLC

(***************************************************************************)
(* Exact rational arithmetic                                               *)
(***************************************************************************)
Abs(n) == IF n < 0 THEN -n ELSE n

RECURSIVE GCD(_, _)
GCD(a, b) == IF b = 0 THEN a ELSE GCD(b, a % b)

Rat(n, d) ==
    LET g == GCD(Abs(n), d)
    IN  IF n = 0 THEN <<0, 1>> ELSE <<n \div g, d \div g>>

R(n) == <<n, 1>>
RAdd(a, b) == Rat(a[1] * b[2] + b[1] * a[2], a[2] * b[2])
RSub(a, b) == Rat(a[1] * b[2] - b[1] * a[2], a[2] * b[2])
RMulInt(a, k) == Rat(a[1] * k, a[2])
RDivInt(a, k) == Rat(a[1], a[2] * k)
RAbs(a) == <<Abs(a[1]), a[2]>>
RLeq(a, b) == a[1] * b[2] <= b[1] * a[2]
RLt(a, b) == a[1] * b[2] < b[1] * a[2]
RMax(a, b) == IF RLt(a, b) THEN b ELSE a
RMin(a, b) == IF RLt(b, a) THEN b ELSE a
\* int(x) of a non-negative x: truncation
RInt(a) == a[1] \div a[2]

None == <<>>

(***************************************************************************)
(* src/modules/processing.py                                               *)
(***************************************************************************)
Norm2(p) == p[1] * p[1] + p[2] * p[2] + p[3] * p[3]

\* Mutant of closest_scan: among equally distant faces the last one wins.
RECURSIVE closest_scan_last(_, _, _)
closest_scan_last(faces, i, best) ==
    IF i > Len(faces) THEN best
    ELSE IF best = None \/ Norm2(faces[i]) <= Norm2(best)
         THEN closest_scan_last(faces, i + 1, faces[i])
         ELSE closest_scan_last(faces, i + 1, best)

\* The scan of get_closest_face over faces[i..]: best is closest_face so far
\* (None while min_distance is still inf).  Distances are compared by their
\* squares.
RECURSIVE closest_scan(_, _, _)
closest_scan(faces, i, best) ==
    IF i > Len(faces) THEN best
    ELSE IF best = None \/ Norm2(faces[i]) < Norm2(best)
         THEN closest_scan(faces, i + 1, faces[i])
         ELSE closest_scan(faces, i + 1, best)

get_closest_face(frame_face_positions) ==
    IF frame_face_positions = <<>> THEN None
    ELSE closest_scan(frame_face_positions, 1, None)

transform_target_realsense_to_ro(p) == <<-p[1], -p[2], p[3]>>

\* cos and sin of a multiple of 90 degrees
CosDeg(a) == CASE a % 360 = 0 -> 1 [] a % 360 = 90 -> 0
               [] a % 360 = 180 -> -1 [] a % 360 = 270 -> 0
SinDeg(a) == CASE a % 360 = 0 -> 0 [] a % 360 = 90 -> 1
               [] a % 360 = 180 -> 0 [] a % 360 = 270 -> -1

\* The(S) is the element of a singleton S.  { e(a) : a \in {A} } evaluates
\* the operand A once.
The(S) == CHOOSE x \in S : TRUE

MatMul(A, B) ==
    The({ [i \in 1..3 |-> [j \in 1..3 |->
              a[i][1] * b[1][j] + a[i][2] * b[2][j] + a[i][3] * b[3][j]]]
          : a \in {A}, b \in {B} })
Transpose(A) == The({ [i \in 1..3 |-> [j \in 1..3 |-> a[j][i]]] : a \in {A} })
MatVec(A, v) ==
    The({ [i \in 1..3 |-> a[i][1] * w[1] + a[i][2] * w[2] + a[i][3] * w[3]]
          : a \in {A}, w \in {v} })

euler_to_rotation_matrix(roll, pitch, yaw) ==
    LET R_x == << <<1, 0, 0>>,
                  <<0, CosDeg(roll), -SinDeg(roll)>>,
                  <<0, SinDeg(roll), CosDeg(roll)>> >>
        R_y == << <<CosDeg(pitch), 0, SinDeg(pitch)>>,
                  <<0, 1, 0>>,
                  <<-SinDeg(pitch), 0, CosDeg(pitch)>> >>
        R_z == << <<CosDeg(yaw), -SinDeg(yaw), 0>>,
                  <<SinDeg(yaw), CosDeg(yaw), 0>>,
                  <<0, 0, 1>> >>
    IN  MatMul(MatMul(R_z, R_y), R_x)

\* Raises (TypeError from the * unpacking, ValueError from the array
\* subtraction) unless the orientation and the position have three components.
transform_raises(unit_position, unit_orientation) ==
    Len(unit_orientation) # 3 \/ Len(unit_position) # 3

\* Mutant of transform_to_unit_frame: R_unit in place of its transpose.
transform_to_unit_frame_untransposed(target_position, unit_position, unit_orientation) ==
    LET R_unit == euler_to_rotation_matrix(unit_orientation[1],
                                           unit_orientation[2],
                                           unit_orientation[3])
        relative_position == [i \in 1..3 |-> target_position[i] - unit_position[i]]
    IN  MatVec(R_unit, relative_position)

transform_to_unit_frame(target_position, unit_position, unit_orientation) ==
    LET R_unit == euler_to_rotation_matrix(unit_orientation[1],
                                           unit_orientation[2],
                                           unit_orientation[3])
        relative_position == [i \in 1..3 |-> target_position[i] - unit_position[i]]
    IN  MatVec(Transpose(R_unit), relative_position)

\* atan2(y, x) in degrees, where it is a multiple of 45
Atan2Deg(y, x) ==
    CASE y = 0 /\ x >= 0 -> 0
      [] y = 0 /\ x < 0 -> 180
      [] x = 0 /\ y > 0 -> 90
      [] x = 0 /\ y < 0 -> -90
      [] x > 0 /\ y = x -> 45
      [] x > 0 /\ y = -x -> -45
      [] x < 0 /\ y = -x -> 135
      [] x < 0 /\ y = x -> -135

\* atan2(y, sqrt(h2)) in degrees, where it is a multiple of 45
AtanOverRoot(y, h2) ==
    CASE y = 0 -> 0
      [] h2 = 0 /\ y > 0 -> 90
      [] h2 = 0 /\ y < 0 -> -90
      [] y > 0 /\ y * y = h2 -> 45
      [] y < 0 /\ y * y = h2 -> -45

\* The local offsets for which both angles are multiples of 45 degrees.
ExactOffset(v) ==
    /\ (v[1] = 0 \/ v[3] = 0 \/ Abs(v[1]) = Abs(v[3]))
    /\ LET h2 == v[1] * v[1] + v[3] * v[3]
       IN  v[2] = 0 \/ h2 = 0 \/ v[2] * v[2] = h2

compute_pan_tilt_angles(transformed_position) ==
    LET x_rel == transformed_position[1]
        y_rel == transformed_position[2]
        z_rel == transformed_position[3]
        pan_angle == Atan2Deg(x_rel, z_rel)
        tilt_angle == AtanOverRoot(y_rel, x_rel * x_rel + z_rel * z_rel)
    IN  <<R(pan_angle), R(tilt_angle)>>

\* Mutant of apply_safety_limits: the angle is moved by one degree before
\* it is clamped.
apply_safety_limits_shifted(angle, min_angle, max_angle) ==
    RMax(min_angle, RMin(max_angle, RSub(angle, R(1))))

apply_safety_limits(angle, min_angle, max_angle) ==
    RMax(min_angle, RMin(max_angle, angle))

map_to_servo_range(angle) == RAdd(angle, R(90))

\* Mutant of transform_angle_to_servo: no safety limits.
transform_angle_to_servo_unclamped(angle, min_angle, max_angle) ==
    map_to_servo_range(angle)

transform_angle_to_servo(angle, min_angle, max_angle) ==
    LET safe_angle == apply_safety_limits(angle, min_angle, max_angle)
        servo_angle == map_to_servo_range(safe_angle)
    IN  servo_angle

(***************************************************************************)
(* JSON text.  An object is its member list <<key, value>>, in the order   *)
(* json.dumps writes it; an array is a sequence; a payload that is not     *)
(* JSON text has valid = FALSE.                                            *)
(***************************************************************************)
UnitKeys == <<"unit", "i2c_id", "motors_id", "pan", "tilt">>

JsonObject(d, keys) == [i \in 1..Len(keys) |-> <<keys[i], d[keys[i]]>>]

json_dumps(message) ==
    [valid |-> TRUE,
     members |-> << <<"units", [i \in 1..Len(message.units) |->
                                   JsonObject(message.units[i], UnitKeys)]>> >>]

\* The dict json.loads builds from a member list: the last member of a key wins.
JsonDict(members) ==
    [k \in {members[i][1] : i \in 1..Len(members)} |->
        LET last == CHOOSE i \in 1..Len(members) :
                        /\ members[i][1] = k
                        /\ \A j \in (i + 1)..Len(members) : members[j][1] # k
        IN  members[last][2]]

\* A payload json.loads rejects, and the payload {}.
NoPayload == [valid |-> FALSE, members |-> <<>>]
EmptyObject == [valid |-> TRUE, members |-> <<>>]

(***************************************************************************)
(* State                                                                   *)
(***************************************************************************)
VARIABLES
    running,          \* control node: the main loop is alive
    units,            \* PanTiltUnitManager.units
    angle_min,        \* PanTiltUnitManager.angle_min
    angle_max,        \* PanTiltUnitManager.angle_max
    units_config,     \* config['pan_tilt_units'] of config.yaml
    cycle,            \* control node: what the last loop iteration did
    published,        \* payloads handed to mqtt publish in the last iteration
    connected,        \* the broker is reachable
    channel,          \* payloads in flight on topic pan_tilt/all_angles
    controller_class, \* which text of class ServoController is in force
    servos,           \* ServoController.servos: the keys <<i2c_id, motor_id>>
    angle,            \* servo_motor.angle of every registered servo
    broken,           \* servos whose hardware write raises
    calls,            \* handler invocations on the actuation node so far
    sent_angles,      \* all_angles of the message being handled (<<>> if foreign)
    received,         \* the payload the last handler was given
    servos_data,      \* the list on_message built from it
    writes,           \* the hardware writes of the last handler, in order
    outcome,          \* how the last handler ended
    active,           \* the motion batches in progress: <<[id, todo]>>
    dropped,          \* messages lost in the channel so far
    call              \* the last call of a function on its own: [fn, args, result]

\* No function has been called on its own.
NoCall == [fn |-> "none", args |-> <<>>, result |-> <<>>]

config_vars == <<units_config, units, angle_min, angle_max>>
control_vars == <<running, units_config, units, angle_min, angle_max, cycle, published>>
hardware_vars == <<controller_class, servos, broken>>
actuation_vars == <<controller_class, servos, angle, broken, calls, sent_angles, received,
                    servos_data, writes, outcome, active>>
vars == <<running, units_config, units, angle_min, angle_max, cycle, published,
          connected, channel, controller_class, servos, angle, broken, calls, sent_angles,
          received, servos_data, writes, outcome, active, dropped, call>>

(***************************************************************************)
(* Bounds and input sets                                                   *)
(***************************************************************************)
MaxUnits == 3
MaxFaces == 2
MaxInFlight == 1
MaxCalls == 2
MaxMsgUnits == 2
MaxLost == 1

\* Deprojected face positions, in the sensor frame
Points == { <<0, 0, 1>>, <<1, 0, -1>>, <<0, -1, 1>>, <<0, 0, 0>>, <<-1, 0, -1>> }

\* Unit calibration records of config.yaml.  u2's position has two
\* components: its angle computation raises.
UnitPool ==
    { [name |-> "u1", position |-> <<0, 0, 0>>, orientation |-> <<0, 0, 0>>,
       i2c_id |-> 0, motors_id |-> <<0, 1>>],
      [name |-> "u2", position |-> <<0, 0>>, orientation |-> <<0, 0, 0>>,
       i2c_id |-> 0, motors_id |-> <<2, 3>>],
      [name |-> "u3", position |-> <<1, 0, 0>>, orientation |-> <<0, 90, 0>>,
       i2c_id |-> 1, motors_id |-> <<0, 1>>] }

\* angle_limits of config.yaml: <<min_angle, max_angle>>
LimitPairs == { <<-90, 90>>, <<-65, 65>>, <<-100, 100>>, <<30, -30>> }

\* transform_to_unit_frame, tabulated over the calibrations and the world
\* points of the model (evaluated once).
Calibrations ==
    { <<u.position, u.orientation>> :
        u \in { v \in UnitPool : ~ transform_raises(v.position, v.orientation) } }
WorldPoints == { transform_target_realsense_to_ro(p) : p \in Points }
UnitFrame ==
    [c \in Calibrations, t \in WorldPoints |-> transform_to_unit_frame(t, c[1], c[2])]

SeqsUpTo(S, n) == UNION { [1..k -> S] : k \in 0..n }

(***************************************************************************)
(* src/modules/pan_tilt.py                                                 *)
(***************************************************************************)
\* PanTiltUnit(...) of PanTiltUnitManager.__init__: unit_conf['name'],
\* ['position'] and ['orientation'] raise KeyError when missing.
unit_init_raises(unit_conf) ==
    ~ ({"name", "position", "orientation"} \subseteq DOMAIN unit_conf)

PanTiltUnit(unit_conf, min_angle, max_angle) ==
    [name |-> unit_conf.name,
     position |-> unit_conf.position,
     orientation |-> unit_conf.orientation,
     i2c_id |-> IF "i2c_id" \in DOMAIN unit_conf THEN unit_conf.i2c_id ELSE None,
     motors_id |-> IF "motors_id" \in DOMAIN unit_conf THEN unit_conf.motors_id ELSE None,
     angle_min |-> min_angle,
     angle_max |-> max_angle]

RECURSIVE manager_units(_, _, _)
manager_units(confs, min_angle, max_angle) ==
    IF confs = <<>> THEN <<>>
    ELSE LET rest == manager_units(Tail(confs), min_angle, max_angle)
         IN  IF unit_init_raises(Head(confs)) THEN rest
             ELSE <<PanTiltUnit(Head(confs), min_angle, max_angle)>> \o rest

\* PanTiltUnit.compute_angles: <<pan, tilt>>, or <<None, None>> when the
\* computation raised.
compute_angles(unit, target_position) ==
    IF transform_raises(unit.position, unit.orientation) THEN <<None, None>>
    ELSE LET transformed_position ==
                 UnitFrame[<<unit.position, unit.orientation>>, target_position]
             angles == compute_pan_tilt_angles(transformed_position)
             pan_servo_angle ==
                 transform_angle_to_servo(angles[1], R(unit.angle_min), R(unit.angle_max))
             tilt_servo_angle ==
                 transform_angle_to_servo(angles[2], R(unit.angle_min), R(unit.angle_max))
         IN  <<pan_servo_angle, tilt_servo_angle>>

\* Mutant of collect_angles: a unit's failure ends the loop (the units after
\* it are lost).
RECURSIVE collect_angles_abort(_, _)
collect_angles_abort(us, target_position) ==
    IF us = <<>> THEN <<>>
    ELSE LET unit == Head(us)
             a == compute_angles(unit, target_position)
         IN  IF a[1] # None /\ a[2] # None
             THEN << [unit |-> unit.name, i2c_id |-> unit.i2c_id,
                      motors_id |-> unit.motors_id,
                      pan |-> a[1], tilt |-> a[2]] >>
                  \o collect_angles_abort(Tail(us), target_position)
             ELSE <<>>

\* The loop of compute_and_send_all_angles over us: the list all_angles.
RECURSIVE collect_angles(_, _)
collect_angles(us, target_position) ==
    IF us = <<>> THEN <<>>
    ELSE LET unit == Head(us)
             a == compute_angles(unit, target_position)
             rest == collect_angles(Tail(us), target_position)
         IN  IF a[1] # None /\ a[2] # None
             THEN << [unit |-> unit.name, i2c_id |-> unit.i2c_id,
                      motors_id |-> unit.motors_id,
                      pan |-> a[1], tilt |-> a[2]] >> \o rest
             ELSE rest

all_angles_of(us, target_rs) ==
    collect_angles(us, transform_target_realsense_to_ro(target_rs))

\* The payload send_all_angles_over_mqtt publishes.
send_all_angles_over_mqtt(all_angles) == json_dumps([units |-> all_angles])

\* Mutant of compute_and_send_all_angles: one publish per unit.
compute_and_send_per_unit(us, target_rs) ==
    LET all_angles == all_angles_of(us, target_rs)
    IN  [i \in 1..Len(all_angles) |-> send_all_angles_over_mqtt(<<all_angles[i]>>)]

\* The publish calls of one compute_and_send_all_angles, in order.
compute_and_send_all_angles(us, target_rs) ==
    LET all_angles == all_angles_of(us, target_rs)
    IN  IF all_angles # <<>> THEN <<send_all_angles_over_mqtt(all_angles)>>
        ELSE <<>>

(***************************************************************************)
(* The publish call of paho: at most once, dropped when the broker is not  *)
(* reachable or the channel is full.                                       *)
(***************************************************************************)
RECURSIVE mqtt_publish(_, _, _)
mqtt_publish(chan, payloads, up) ==
    IF payloads = <<>> THEN chan
    ELSE mqtt_publish(IF up /\ Len(chan) < MaxInFlight
                      THEN Append(chan, Head(payloads)) ELSE chan,
                      Tail(payloads), up)

(***************************************************************************)
(* src/main.py: one iteration of the while loop                            *)
(***************************************************************************)
\* The face positions for which every unit's angles are multiples of 45.
Trackable(us) ==
    { p \in Points : \A i \in 1..Len(us) :
        transform_raises(us[i].position, us[i].orientation)
        \/ ExactOffset(UnitFrame[<<us[i].position, us[i].orientation>>,
                                 transform_target_realsense_to_ro(p)]) }

Idle == [outcome |-> "start", closest_face |-> None, all_angles |-> <<>>]

\* camera.get_frames() returned no frame: continue
main_no_frame ==
    /\ running
    /\ cycle' = [outcome |-> "no_frame", closest_face |-> None, all_angles |-> <<>>]
    /\ published' = <<>>
    /\ UNCHANGED <<call, dropped, running, config_vars, connected, channel, actuation_vars>>

\* detector.detect_faces raised: the handler logs and calls exit()
main_detector_error ==
    /\ running
    /\ running' = FALSE
    /\ cycle' = [outcome |-> "detector_error", closest_face |-> None, all_angles |-> <<>>]
    /\ published' = <<>>
    /\ UNCHANGED <<call, dropped, config_vars, connected, channel, actuation_vars>>

\* faces[i] is the deprojected position of face i, or None when processing
\* that face raised (the face is skipped).  quit: 'q' was pressed.
main_track(faces, quit) ==
    /\ running
    /\ \E closest_face \in {get_closest_face(SelectSeq(faces, LAMBDA f : f # None))} :
       \E sent \in {IF closest_face # None
                    THEN compute_and_send_all_angles(units, closest_face)
                    ELSE <<>>} :
           /\ cycle' = [outcome |-> IF closest_face # None THEN "tracked" ELSE "no_face",
                        closest_face |-> closest_face,
                        all_angles |-> IF closest_face # None
                                       THEN all_angles_of(units, closest_face)
                                       ELSE <<>>]
           /\ published' = sent
           /\ channel' = mqtt_publish(channel, sent, connected)
    /\ running' = ~quit
    /\ UNCHANGED <<call, dropped, config_vars, connected, actuation_vars>>

\* Mutant of lose: the actuation node notices the gap and centres its servos.
lose_and_centre ==
    /\ channel # <<>>
    /\ dropped < MaxLost
    /\ channel' = Tail(channel)
    /\ dropped' = dropped + 1
    /\ angle' = [k \in DOMAIN angle |-> <<90, 1>>]
    /\ UNCHANGED <<call, control_vars, connected, controller_class, servos, broken, calls,
                   sent_angles, received, servos_data, writes, outcome, active>>

\* A message in flight is lost (QoS 0).
lose ==
    /\ channel # <<>>
    /\ dropped < MaxLost
    /\ channel' = Tail(channel)
    /\ dropped' = dropped + 1
    /\ UNCHANGED <<call, control_vars, connected, actuation_vars>>

InitControl ==
    /\ running = TRUE
    /\ units_config \in SeqsUpTo(UnitPool, MaxUnits)
    /\ \E lim \in LimitPairs :
        /\ angle_min = lim[1]
        /\ angle_max = lim[2]
    /\ units = manager_units(units_config, angle_min, angle_max)
    /\ cycle = Idle
    /\ published = <<>>
    /\ connected = FALSE
    /\ channel = <<>>
    /\ controller_class = "direct"
    /\ servos = <<>>
    /\ angle = <<>>
    /\ broken = {}
    /\ calls = 0
    /\ sent_angles = <<>>
    /\ received = NoPayload
    /\ servos_data = <<>>
    /\ writes = <<>>
    /\ outcome = "start"
    /\ active = <<>>
    /\ dropped = 0
    /\ call = NoCall

NextControl ==
    \/ main_no_frame
    \/ main_detector_error
    \/ \E faces \in SeqsUpTo(Trackable(units) \cup {None}, MaxFaces), quit \in BOOLEAN :
           main_track(faces, quit)

SpecControl == InitControl /\ [][NextControl]_vars

(***************************************************************************)
(* src/pi/servo_controller.py                                              *)
(***************************************************************************)
\* The bounds of max(0, min(180, .)) and the default of the parameter step.
ServoMin == 0
ServoMax == 180
DefaultStep == 1

clamp(a) == RMax(R(ServoMin), RMin(R(ServoMax), a))

Range(f) == { f[i] : i \in DOMAIN f }

MaxOf(S) == CHOOSE x \in S : \A y \in S : y <= x

\* ServoController.__init__: the keys of self.servos in insertion order.  A
\* servo on a bus whose PCA9685 failed to initialise is not registered.
RECURSIVE ServoController_init(_, _, _)
ServoController_init(confs, failed_pca, acc) ==
    IF confs = <<>> THEN acc
    ELSE LET unit == Head(confs)
             keys == [j \in 1..Len(unit.motors_id) |-> <<unit.i2c_id, unit.motors_id[j]>>]
             fresh == SelectSeq(keys, LAMBDA k : k \notin Range(acc))
         IN  ServoController_init(Tail(confs), failed_pca,
                                  IF unit.i2c_id \in failed_pca THEN acc
                                  ELSE acc \o fresh)

\* One hardware write servo_motor.angle = a: ok is FALSE when it raised.
hw_write(key, a, bad) == [key |-> key, angle |-> a, ok |-> key \notin bad]

\* servo_motor.angle of every servo after the writes of log (a servo reads
\* back the last angle written to it).
angle_after(ang, log) ==
    [k \in DOMAIN ang |->
        LET idx == { n \in DOMAIN log : log[n].key = k /\ log[n].ok }
        IN  IF idx = {} THEN ang[k] ELSE log[MaxOf(idx)].angle]

\* set_servo_angle of the class the interpreter defines (lines 182-192): the
\* writes it makes.
set_servo_angle(reg, bad, i2c_id, motor_id, a) ==
    IF <<i2c_id, motor_id>> \in reg
    THEN << hw_write(<<i2c_id, motor_id>>, clamp(a), bad) >>
    ELSE <<>>

\* set_multiple_servo_angles (lines 194-206): every entry is attempted.
RECURSIVE set_multiple_servo_angles(_, _, _)
set_multiple_servo_angles(reg, bad, data) ==
    IF data = <<>> THEN <<>>
    ELSE set_servo_angle(reg, bad, Head(data).i2c_id, Head(data).motor_id, Head(data).angle)
         \o set_multiple_servo_angles(reg, bad, Tail(data))

\* move_multiple_servos, lines 82-93: the keys of start_angles and end_angles
\* in insertion order.
RECURSIVE registered_keys(_, _, _)
registered_keys(data, reg, seen) ==
    IF data = <<>> THEN <<>>
    ELSE LET key == <<Head(data).i2c_id, Head(data).motor_id>>
         IN  IF key \in reg /\ key \notin seen
             THEN <<key>> \o registered_keys(Tail(data), reg, seen \cup {key})
             ELSE registered_keys(Tail(data), reg, seen)

\* line 89
start_angle_of(ang, key) == IF ang[key] = None THEN R(0) ELSE ang[key]

\* line 91: a later entry of the same servo replaces the earlier one
end_angle_of(data, key) ==
    data[MaxOf({ n \in DOMAIN data : <<data[n].i2c_id, data[n].motor_id>> = key })].angle

\* Mutant of steps_of: the quotient is rounded to the nearest integer.
steps_of_rounded(start_angle, end_angle, step) ==
    RInt(RAdd(RDivInt(RAbs(RSub(end_angle, start_angle)), step), Rat(1, 2)))

\* line 101: int(abs(end_angle - start_angle) / step)
steps_of(start_angle, end_angle, step) ==
    RInt(RDivInt(RAbs(RSub(end_angle, start_angle)), step))

\* line 102
delta_angle_of(start_angle, end_angle, step) ==
    LET steps == steps_of(start_angle, end_angle, step)
    IN  RDivInt(RSub(end_angle, start_angle), IF steps > 1 THEN steps ELSE 1)

\* line 102: max(steps, 1), the count the servo's delta is computed with
servo_steps(start_angle, end_angle, step) ==
    LET steps == steps_of(start_angle, end_angle, step)
    IN  IF steps > 1 THEN steps ELSE 1

\* lines 96-105
max_steps_of(data, ang, keys, step) ==
    MaxOf({1} \cup { steps_of(start_angle_of(ang, keys[j]), end_angle_of(data, keys[j]), step) :
                       j \in DOMAIN keys })


\* lines 108-121: the writes move_multiple_servos makes when none raises.
\* Micro-step i of a servo is clamp(start + delta * i) with the servo's own
\* delta; the last round writes end_angles[key] as it is.
move_plan(data, ang, reg, step) ==
    LET keys == registered_keys(data, reg, {})
        K == Len(keys)
        max_steps == max_steps_of(data, ang, keys, step)
        start == [j \in 1..K |-> start_angle_of(ang, keys[j])]
        end == [j \in 1..K |-> end_angle_of(data, keys[j])]
        delta == [j \in 1..K |-> delta_angle_of(start[j], end[j], step)]
    IN  [n \in 1..((max_steps + 1) * K) |->
            LET i == ((n - 1) \div K) + 1
                j == ((n - 1) % K) + 1
            IN  [key |-> keys[j],
                 angle |-> IF i <= max_steps
                           THEN clamp(RAdd(start[j], RMulInt(delta[j], i)))
                           ELSE end[j]]]

\* move_multiple_servos (lines 69-125): the whole body is one try block, so
\* the first write that raises ends the call.
move_multiple_servos(data, ang, reg, bad, step) ==
    LET plan == move_plan(data, ang, reg, step)
        failing == { n \in DOMAIN plan : plan[n].key \in bad }
        last == IF failing = {} THEN Len(plan)
                ELSE CHOOSE n \in failing : \A m \in failing : n <= m
        log == [n \in 1..last |-> hw_write(plan[n].key, plan[n].angle, bad)]
    IN  [writes |-> log, angle |-> angle_after(ang, log), completed |-> failing = {}]

(***************************************************************************)
(* src/pi/mqtt_subscriber.py                                               *)
(***************************************************************************)
UnitKeySet == { UnitKeys[i] : i \in DOMAIN UnitKeys }

\* lines 41-45, 53, 58: a KeyError or an IndexError
entry_raises(unit_data) ==
    \/ ~ (UnitKeySet \subseteq DOMAIN unit_data)
    \/ Len(unit_data.motors_id) < 2

\* Mutant of unit_servos: pan and tilt exchanged.
unit_servos_swapped(unit_data) ==
    << [i2c_id |-> unit_data.i2c_id, motor_id |-> unit_data.motors_id[1],
        angle |-> unit_data.tilt],
       [i2c_id |-> unit_data.i2c_id, motor_id |-> unit_data.motors_id[2],
        angle |-> unit_data.pan] >>

\* lines 51-60: the two targets of one unit entry
unit_servos(unit_data) ==
    << [i2c_id |-> unit_data.i2c_id, motor_id |-> unit_data.motors_id[1],
        angle |-> unit_data.pan],
       [i2c_id |-> unit_data.i2c_id, motor_id |-> unit_data.motors_id[2],
        angle |-> unit_data.tilt] >>

RECURSIVE Flatten(_)
Flatten(ss) == IF ss = <<>> THEN <<>> ELSE Head(ss) \o Flatten(Tail(ss))

\* lines 35-60: json.loads and the loop that builds servos_data; raised when
\* any of it raised.
on_message_parse(payload) ==
    IF ~ payload.valid THEN [raised |-> TRUE, servos_data |-> <<>>]
    ELSE LET message == JsonDict(payload.members)
             arr == IF "units" \in DOMAIN message THEN message["units"] ELSE <<>>
             ds == [i \in 1..Len(arr) |-> JsonDict(arr[i])]
         IN  IF \E i \in 1..Len(ds) : entry_raises(ds[i])
             THEN [raised |-> TRUE, servos_data |-> <<>>]
             ELSE [raised |-> FALSE,
                   servos_data |-> Flatten([i \in 1..Len(ds) |-> unit_servos(ds[i])])]

\* on_message (lines 33-66).  all_angles is the list the publisher encoded,
\* <<>> for a payload of another publisher.  Under the class the interpreter
\* defines, servo_controller.move_multiple_servos raises AttributeError,
\* which the handler catches.
on_message(payload, all_angles) ==
    /\ calls < MaxCalls
    /\ calls' = calls + 1
    /\ received' = payload
    /\ sent_angles' = all_angles
    /\ \E parsed \in {on_message_parse(payload)} :
        /\ servos_data' = parsed.servos_data
        /\ IF parsed.raised
           THEN outcome' = "parse_error" /\ writes' = <<>> /\ angle' = angle
           ELSE IF parsed.servos_data = <<>>
           THEN outcome' = "no_targets" /\ writes' = <<>> /\ angle' = angle
           ELSE IF controller_class = "direct"
           THEN outcome' = "no_method" /\ writes' = <<>> /\ angle' = angle
           ELSE \E m \in {move_multiple_servos(parsed.servos_data, angle,
                                               Range(servos), broken, DefaultStep)} :
                    /\ outcome' = IF m.completed THEN "completed" ELSE "move_error"
                    /\ writes' = m.writes
                    /\ angle' = m.angle
    /\ UNCHANGED <<call, dropped, control_vars, connected, channel, hardware_vars, active>>

(***************************************************************************)
(* src/pi/wave_test.py                                                     *)
(***************************************************************************)
\* set_all_angles_to_center (lines 23-40).  The class of lines 14-125 has no
\* set_multiple_servo_angles: the AttributeError is caught at line 39.
set_all_angles_to_center(center_angle) ==
    /\ calls < MaxCalls
    /\ calls' = calls + 1
    /\ sent_angles' = <<>>
    /\ received' = NoPayload
    /\ servos_data' = [j \in 1..Len(servos) |->
                          [i2c_id |-> servos[j][1], motor_id |-> servos[j][2],
                           angle |-> center_angle]]
    /\ IF controller_class = "direct"
       THEN \E log \in {set_multiple_servo_angles(Range(servos), broken, servos_data')} :
                /\ writes' = log
                /\ angle' = angle_after(angle, log)
                /\ outcome' = "centered"
       ELSE outcome' = "no_method" /\ writes' = <<>> /\ angle' = angle
    /\ UNCHANGED <<call, dropped, control_vars, connected, channel, hardware_vars, active>>


(***************************************************************************)
(* The actuation node on its own: messages are handed to on_message as     *)
(* they are published.                                                     *)
(***************************************************************************)
UnitNamed(n) == CHOOSE u \in UnitPool : u.name = n

\* pan_tilt_units of the config.yaml of the actuation node
PiConfig == << UnitNamed("u1"), UnitNamed("u2"), UnitNamed("u3") >>

\* <<pan, tilt>> values a message entry carries
AnglePairs == { <<R(2), R(5)>>, <<R(5), R(-3)>> }

\* center_angle arguments
CenterAngles == { R(90), R(183), R(-3) }

\* Servos whose writes may raise
Faulty == { <<0, 1>>, <<0, 2>> }

\* The all_angles lists: entries of distinct units in registry order.
Messages ==
    LET us == manager_units(PiConfig, -90, 90)
        picks == { s \in SeqsUpTo(1..Len(us), MaxMsgUnits) :
                     /\ s # <<>>
                     /\ \A i \in 1..(Len(s) - 1) : s[i] < s[i + 1] }
    IN  UNION { { [i \in 1..Len(s) |->
                      [unit |-> us[s[i]].name, i2c_id |-> us[s[i]].i2c_id,
                       motors_id |-> us[s[i]].motors_id,
                       pan |-> a[i][1], tilt |-> a[i][2]]] :
                  a \in [1..Len(s) -> AnglePairs] } : s \in picks }

\* Payloads of other publishers on the topic: the payload of a two-unit
\* message with entry j damaged.
Damages == { "unit", "i2c_id", "motors_id", "pan", "tilt", "short", "long" }

Damage(obj, kind) ==
    IF kind \in UnitKeySet THEN SelectSeq(obj, LAMBDA m : m[1] # kind)
    ELSE [i \in DOMAIN obj |->
            IF obj[i][1] # "motors_id" THEN obj[i]
            ELSE <<"motors_id", IF kind = "short" THEN <<obj[i][2][1]>>
                                ELSE Append(obj[i][2], obj[i][2][2])>>]

BaseMessage ==
    CHOOSE m \in Messages :
        /\ Len(m) = 2 /\ m[1].unit = "u1" /\ m[2].unit = "u2"
        /\ \A i \in 1..2 : <<m[i].pan, m[i].tilt>> = <<R(2), R(5)>>

ForeignPayloads ==
    LET base == send_all_angles_over_mqtt(BaseMessage).members[1][2]
    IN  { NoPayload, EmptyObject }
        \cup { [valid |-> TRUE,
                members |-> << <<"units", [i \in DOMAIN base |->
                                  IF i = j THEN Damage(base[i], kind) ELSE base[i]]>> >>] :
               j \in DOMAIN base, kind \in Damages }

InitActuation ==
    /\ running = FALSE
    /\ units_config = PiConfig
    /\ angle_min = -90
    /\ angle_max = 90
    /\ units = manager_units(units_config, angle_min, angle_max)
    /\ cycle = Idle
    /\ published = <<>>
    /\ connected = FALSE
    /\ channel = <<>>
    /\ controller_class \in {"stepping", "direct"}
    /\ \E failed_pca \in {{}, {1}} : servos = ServoController_init(units_config, failed_pca, <<>>)
    /\ angle = [k \in Range(servos) |-> None]
    /\ broken \in {{}} \cup { {k} : k \in Faulty }
    /\ calls = 0
    /\ sent_angles = <<>>
    /\ received = NoPayload
    /\ servos_data = <<>>
    /\ writes = <<>>
    /\ outcome = "start"
    /\ active = <<>>
    /\ dropped = 0
    /\ call = NoCall

NextActuation ==
    \/ \E all_angles \in Messages :
           on_message(send_all_angles_over_mqtt(all_angles), all_angles)
    \/ \E payload \in ForeignPayloads : on_message(payload, <<>>)
    \/ \E center_angle \in CenterAngles : set_all_angles_to_center(center_angle)

SpecActuation == InitActuation /\ [][NextActuation]_vars

(***************************************************************************)
(* Claims about the control node                                           *)
(***************************************************************************)
\* The unit entries of a published payload, as dicts.
PayloadUnits(payload) ==
    LET arr == JsonDict(payload.members)["units"]
    IN  [i \in 1..Len(arr) |-> JsonDict(arr[i])]

InServoRange(a) == RLeq(R(0), a) /\ RLeq(a, R(180))

computes(unit) == ~ transform_raises(unit.position, unit.orientation)

\* C1: every pan and tilt value of a published message lies in [0, 180],
\* whatever angle_min and angle_max are configured.
C1_PublishedAnglesInServoRange ==
    \A k \in 1..Len(published) :
        LET us == PayloadUnits(published[k])
        IN  \A i \in 1..Len(us) : InServoRange(us[i].pan) /\ InServoRange(us[i].tilt)

\* C4: the message of a cycle holds exactly the units whose angle computation
\* succeeded, in registry order, each with the entry it has when it is the
\* only unit of the registry; a failing unit is absent.
C4_ExactlyTheSucceedingUnits ==
    cycle.outcome = "tracked" =>
        LET ok == SelectSeq(units, computes)
            sent == IF published = <<>> THEN <<>> ELSE PayloadUnits(published[1])
        IN  /\ Len(sent) = Len(ok)
            /\ \A i \in 1..Len(ok) :
                 /\ sent[i].unit = ok[i].name
                 /\ sent[i] = all_angles_of(<<ok[i]>>, cycle.closest_face)[1]

\* C4 witness: three units, the second fails, the message holds units 1 and 3.
C4_Witness ==
    /\ cycle.outcome = "tracked"
    /\ Len(units) = 3
    /\ computes(units[1]) /\ ~ computes(units[2]) /\ computes(units[3])
    /\ Len(published) = 1
    /\ Len(PayloadUnits(published[1])) = 2
    /\ PayloadUnits(published[1])[1].unit = units[1].name
    /\ PayloadUnits(published[1])[2].unit = units[3].name

\* C5: a cycle publishes at most one message: exactly one, carrying every
\* succeeding unit, when a target was selected and some unit computed its
\* angles; none otherwise.
C5_AtMostOnePublishPerCycle ==
    LET ok == SelectSeq(units, computes)
    IN  /\ Len(published) <= 1
        /\ Len(published) = 1 <=> (cycle.closest_face # None /\ ok # <<>>)
        /\ Len(published) = 1 => Len(PayloadUnits(published[1])) = Len(ok)

\* C5 witness: a cycle with two succeeding units published one message.
C5_Witness ==
    /\ cycle.outcome = "tracked"
    /\ Len(SelectSeq(units, computes)) >= 2
    /\ Len(published) = 1
    /\ Len(PayloadUnits(published[1])) >= 2

(***************************************************************************)
(* Claims about the actuation node                                         *)
(***************************************************************************)
\* The last handler was on_message.
Handled == outcome \in {"parse_error", "no_targets", "no_method", "completed", "move_error"}

\* The angles written to servo key by the writes of log, in order; a write
\* that raised did not reach the servo.
WrittenTo(log, key) ==
    LET ok == SelectSeq(log, LAMBDA w : w.key = key /\ w.ok)
    IN  [n \in 1..Len(ok) |-> ok[n].angle]

Last(seq) == seq[Len(seq)]

C3_ServosDrivenToCommand ==
    (Handled /\ sent_angles # <<>>) =>
        \A i \in DOMAIN sent_angles :
            LET e == sent_angles[i]
                pan_key == <<e.i2c_id, e.motors_id[1]>>
                tilt_key == <<e.i2c_id, e.motors_id[2]>>
            IN  /\ pan_key \in Range(servos) =>
                     /\ WrittenTo(writes, pan_key) # <<>>
                     /\ Last(WrittenTo(writes, pan_key)) = e.pan
                /\ tilt_key \in Range(servos) =>
                     /\ WrittenTo(writes, tilt_key) # <<>>
                     /\ Last(WrittenTo(writes, tilt_key)) = e.tilt

\* The unit entries of a payload that decodes to an object with a units list.
ReceivedEntries ==
    IF received.valid /\ "units" \in DOMAIN JsonDict(received.members)
    THEN PayloadUnits(received) ELSE <<>>

C7_RoundTrip ==
    (Handled /\ sent_angles # <<>>) =>
        /\ received = send_all_angles_over_mqtt(sent_angles)
        /\ Len(servos_data) = 2 * Len(sent_angles)
        /\ \A i \in DOMAIN sent_angles :
            /\ servos_data[2 * i - 1] =
                 [i2c_id |-> sent_angles[i].i2c_id,
                  motor_id |-> sent_angles[i].motors_id[1],
                  angle |-> sent_angles[i].pan]
            /\ servos_data[2 * i] =
                 [i2c_id |-> sent_angles[i].i2c_id,
                  motor_id |-> sent_angles[i].motors_id[2],
                  angle |-> sent_angles[i].tilt]

\* C7 witness: a message of two units with different pan and tilt values was
\* decoded into four targets.
C7_Witness ==
    /\ Handled
    /\ Len(sent_angles) = 2
    /\ sent_angles[1].pan # sent_angles[1].tilt
    /\ sent_angles[1].pan # sent_angles[2].pan
    /\ Len(servos_data) = 4
    /\ servos_data[3].angle = sent_angles[2].pan
    /\ servos_data[4].motor_id = sent_angles[2].motors_id[2]

Monotonic(seq, up) ==
    \A n \in 1..(Len(seq) - 1) :
        IF up THEN RLeq(seq[n], seq[n + 1]) ELSE RLeq(seq[n + 1], seq[n])

\* A step of move_multiple_servos that ran to its end.
BatchCompleted == calls' = calls + 1 /\ outcome' = "completed"

AddressedServos(payload) ==
    LET us == PayloadUnits(payload)
    IN  [n \in 1..(2 * Len(us)) |->
            <<us[(n + 1) \div 2].i2c_id,
              us[(n + 1) \div 2].motors_id[IF n % 2 = 1 THEN 1 ELSE 2]>>]

\* C11: no published message addresses the same physical servo twice: the
\* (i2c_id, motor_id) pairs over all entries and both axes are pairwise
\* distinct, for every configuration the registry accepts.
C11_NoServoAddressedTwice ==
    \A k \in 1..Len(published) :
        LET keys == AddressedServos(published[k])
        IN  \A a, b \in DOMAIN keys : a # b => keys[a] # keys[b]

(***************************************************************************)
(* The control node started from configurations with defective records     *)
(***************************************************************************)
RequiredFields == {"name", "position", "orientation", "i2c_id", "motors_id"}

\* The record rec of config.yaml with the field k left out.
Without(rec, k) == [f \in DOMAIN rec \ {k} |-> rec[f]]

RegistryPool ==
    {UnitNamed("u1")} \cup { Without(UnitNamed("u3"), k) : k \in RequiredFields }

RegistryLimits == { <<-90, 90>>, <<30, -30>> }

InitRegistry ==
    /\ running = TRUE
    /\ units_config \in SeqsUpTo(RegistryPool, MaxUnits)
    /\ \E lim \in RegistryLimits :
        /\ angle_min = lim[1]
        /\ angle_max = lim[2]
    /\ units = manager_units(units_config, angle_min, angle_max)
    /\ cycle = Idle
    /\ published = <<>>
    /\ connected = FALSE
    /\ channel = <<>>
    /\ controller_class = "direct"
    /\ servos = <<>>
    /\ angle = <<>>
    /\ broken = {}
    /\ calls = 0
    /\ sent_angles = <<>>
    /\ received = NoPayload
    /\ servos_data = <<>>
    /\ writes = <<>>
    /\ outcome = "start"
    /\ active = <<>>
    /\ dropped = 0
    /\ call = NoCall

SpecRegistry == InitRegistry /\ [][NextControl]_vars

\* A record without configuration error.
WellFormed(unit_conf) ==
    /\ RequiredFields \subseteq DOMAIN unit_conf
    /\ angle_min <= angle_max

\* C12: a unit record with a configuration error (name, position,
\* orientation, i2c_id or motors_id missing, or angle_min > angle_max) is
\* excluded from the registry and from every message; every well-formed
\* record is included.
C12_ConfigErrorsExcluded ==
    LET good == SelectSeq(units_config, WellFormed)
    IN  /\ Len(units) = Len(good)
        /\ \A i \in 1..Len(good) : units[i] = PanTiltUnit(good[i], angle_min, angle_max)
        /\ \A k \in 1..Len(published) : Len(PayloadUnits(published[k])) <= Len(good)

\* C13: no error raised inside a control cycle (detector, deprojection of a
\* face, a unit's computation, publish) terminates the control node: the loop
\* ends only when the quit key is read at the end of a cycle.
C13_CycleErrorsDoNotTerminate ==
    ~ running => cycle.outcome \in {"tracked", "no_face"}

(***************************************************************************)
(* The actuation node with the channel and with a batch as a sequence of   *)
(* steps: a message is published, waits in the channel, is lost or handed  *)
(* to on_message by client.loop_forever; move_multiple_servos makes one    *)
(* write per step.                                                         *)
(***************************************************************************)
\* The all_angles lists published here: one entry, unit u1.
DispatchMessages == { m \in Messages : Len(m) = 1 /\ m[1].unit = "u1" }

RemoveAt(seq, b) == [i \in 1..(Len(seq) - 1) |-> IF i < b THEN seq[i] ELSE seq[i + 1]]

\* Mutant of callback_may_start: every message gets a thread of its own.
callback_may_start_threaded(act) == TRUE

\* client.loop_forever (mqtt_subscriber.py line 82) reads the socket and calls
\* on_message in the one thread that called it: the next callback starts
\* when the previous one has returned.
callback_may_start(act) == act = <<>>

\* PanTiltUnitManager.send_all_angles_over_mqtt with the broker reachable.
publish_message(all_angles) ==
    /\ connected
    /\ channel' = mqtt_publish(channel, <<send_all_angles_over_mqtt(all_angles)>>, connected)
    /\ UNCHANGED <<call, dropped, control_vars, connected, actuation_vars>>

\* loop_forever hands the oldest message to on_message; the handler runs up
\* to the first write of move_multiple_servos (lines 33-64, 78-105).
loop_forever_dispatch ==
    /\ channel # <<>>
    /\ calls < MaxCalls
    /\ callback_may_start(active)
    /\ channel' = Tail(channel)
    /\ calls' = calls + 1
    /\ received' = Head(channel)
    /\ sent_angles' = <<>>
    /\ writes' = <<>>
    /\ \E parsed \in {on_message_parse(Head(channel))} :
        /\ servos_data' = parsed.servos_data
        /\ IF parsed.raised
           THEN outcome' = "parse_error" /\ active' = active
           ELSE IF parsed.servos_data = <<>>
           THEN outcome' = "no_targets" /\ active' = active
           ELSE IF controller_class = "direct"
           THEN outcome' = "no_method" /\ active' = active
           ELSE \E plan \in {move_plan(parsed.servos_data, angle, Range(servos), DefaultStep)} :
                    IF plan = <<>>
                    THEN outcome' = "completed" /\ active' = active
                    ELSE /\ outcome' = "moving"
                         /\ active' = Append(active, [id |-> calls', todo |-> plan])
    /\ UNCHANGED <<call, dropped, control_vars, connected, hardware_vars, angle>>

\* One write of batch b (lines 114 and 121); a write that raises ends the
\* call (line 124), the last write ends it too (line 123).
move_step(b) ==
    /\ b \in DOMAIN active
    /\ LET w == Head(active[b].todo)
           rest == Tail(active[b].todo)
       IN  /\ writes' = Append(writes, hw_write(w.key, w.angle, broken))
           /\ IF w.key \in broken
              THEN /\ angle' = angle
                   /\ active' = RemoveAt(active, b)
                   /\ outcome' = "move_error"
              ELSE /\ angle' = [angle EXCEPT ![w.key] = w.angle]
                   /\ IF rest = <<>>
                      THEN active' = RemoveAt(active, b) /\ outcome' = "completed"
                      ELSE active' = [active EXCEPT ![b].todo = rest] /\ outcome' = outcome
    /\ UNCHANGED <<call, dropped, control_vars, connected, channel, hardware_vars, calls, sent_angles,
                   received, servos_data>>

InitDispatch ==
    /\ running = FALSE
    /\ units_config = PiConfig
    /\ angle_min = -90
    /\ angle_max = 90
    /\ units = manager_units(units_config, angle_min, angle_max)
    /\ cycle = Idle
    /\ published = <<>>
    /\ connected = TRUE
    /\ channel = <<>>
    /\ controller_class \in {"stepping", "direct"}
    /\ \E failed_pca \in {{}, {1}} : servos = ServoController_init(units_config, failed_pca, <<>>)
    /\ angle = [k \in Range(servos) |-> None]
    /\ broken \in {{}} \cup { {k} : k \in Faulty }
    /\ calls = 0
    /\ sent_angles = <<>>
    /\ received = NoPayload
    /\ servos_data = <<>>
    /\ writes = <<>>
    /\ outcome = "start"
    /\ active = <<>>
    /\ dropped = 0
    /\ call = NoCall

NextDispatch ==
    \/ \E all_angles \in DispatchMessages : publish_message(all_angles)
    \/ lose
    \/ loop_forever_dispatch
    \/ \E b \in DOMAIN active : move_step(b)

SpecDispatch == InitDispatch /\ [][NextDispatch]_vars

Called(fn, args, result) ==
    /\ call = NoCall
    /\ call' = [fn |-> fn, args |-> args, result |-> result]
    /\ UNCHANGED <<control_vars, connected, channel, actuation_vars, dropped>>

\* Face positions handed to get_closest_face
CallPoints == { <<3, 0, 0>>, <<1, 0, 0>>, <<2, 0, 0>>, <<0, 0, 1>>, <<0, -2, 0>> }

call_get_closest_face(frame_face_positions) ==
    Called("get_closest_face", <<frame_face_positions>>,
           get_closest_face(frame_face_positions))

\* Raw angles and limits handed to the clamp functions
RawAngles == { R(-135), R(-100), R(-90), R(-45), R(0), Rat(91, 2), R(90), R(100), R(135) }
CallLimits == { -100, -90, -65, 0, 65, 90, 100 }

call_transform_angle_to_servo(raw, lo, hi) ==
    Called("transform_angle_to_servo", <<raw, R(lo), R(hi)>>,
           transform_angle_to_servo(raw, R(lo), R(hi)))

call_apply_safety_limits(raw, lo, hi) ==
    Called("apply_safety_limits", <<raw, R(lo), R(hi)>>,
           apply_safety_limits(raw, R(lo), R(hi)))

\* Unit positions, orientations (multiples of 90 degrees) and distances
CallPositions == { <<0, 0, 0>>, <<1, 0, 0>>, <<-1, 2, 3>> }
RightAngles == { -90, 0, 90, 180, 270 }
Distances == { 1, 2 }

\* The world-frame point at distance d from unit_position along the unit's
\* local +z axis (the third column of the unit's rotation matrix).
on_local_z_axis(unit_position, unit_orientation, d) ==
    LET axis == MatVec(euler_to_rotation_matrix(unit_orientation[1], unit_orientation[2],
                                                unit_orientation[3]), <<0, 0, 1>>)
    IN  [i \in 1..3 |-> unit_position[i] + d * axis[i]]

\* transform_to_unit_frame followed by compute_pan_tilt_angles
call_compute_pan_tilt_angles(target_position, unit_position, unit_orientation) ==
    Called("compute_pan_tilt_angles", <<target_position, unit_position, unit_orientation>>,
           compute_pan_tilt_angles(
               transform_to_unit_frame(target_position, unit_position, unit_orientation)))

\* wave_test.py, smooth_transition, lines 135-145, with one pan and one tilt
\* servo: the larger of abs(current - target) // step, then int(.) or 1.
smooth_transition_max_steps(current_pan, current_tilt, target_pan, target_tilt, step) ==
    LET pan_steps == RInt(RDivInt(RAbs(RSub(current_pan, target_pan)), step))
        tilt_steps == RInt(RDivInt(RAbs(RSub(current_tilt, target_tilt)), step))
        max_steps == IF pan_steps > tilt_steps THEN pan_steps ELSE tilt_steps
    IN  IF max_steps = 0 THEN 1 ELSE max_steps

\* Angles and step sizes handed to the step counts
StepAngles == { R(0), Rat(1, 3), Rat(8, 3), R(3), R(90) }
StepTargets == { Rat(8, 3), R(3) }
StepSizes == { 1, 2, 5 }

call_servo_steps(start_angle, end_angle, step) ==
    Called("servo_steps", <<start_angle, end_angle, step>>,
           servo_steps(start_angle, end_angle, step))

call_smooth_transition_max_steps(current_pan, current_tilt, target_pan, target_tilt, step) ==
    Called("smooth_transition_max_steps",
           <<current_pan, current_tilt, target_pan, target_tilt, step>>,
           smooth_transition_max_steps(current_pan, current_tilt, target_pan, target_tilt, step))

InitFunctions ==
    /\ running = FALSE
    /\ units_config = <<>>
    /\ angle_min = -90
    /\ angle_max = 90
    /\ units = manager_units(units_config, angle_min, angle_max)
    /\ cycle = Idle
    /\ published = <<>>
    /\ connected = FALSE
    /\ channel = <<>>
    /\ controller_class = "direct"
    /\ servos = <<>>
    /\ angle = <<>>
    /\ broken = {}
    /\ calls = 0
    /\ sent_angles = <<>>
    /\ received = NoPayload
    /\ servos_data = <<>>
    /\ writes = <<>>
    /\ outcome = "start"
    /\ active = <<>>
    /\ dropped = 0
    /\ call = NoCall

NextFunctions ==
    \/ \E faces \in SeqsUpTo(CallPoints, MaxFaces + 1) : call_get_closest_face(faces)
    \/ \E raw \in RawAngles, lo \in CallLimits, hi \in CallLimits :
           call_transform_angle_to_servo(raw, lo, hi)
    \/ \E raw \in RawAngles, lo \in CallLimits, hi \in CallLimits :
           call_apply_safety_limits(raw, lo, hi)
    \/ \E pos \in CallPositions, ori \in RightAngles \X RightAngles \X RightAngles,
          d \in Distances :
           call_compute_pan_tilt_angles(on_local_z_axis(pos, ori, d), pos, ori)
    \/ \E s \in StepAngles, t \in StepAngles, step \in StepSizes : call_servo_steps(s, t, step)
    \/ \E cp \in StepAngles, ct \in StepAngles, tp \in StepTargets, tt \in StepTargets,
          step \in StepSizes :
           call_smooth_transition_max_steps(cp, ct, tp, tt, step)

SpecFunctions == InitFunctions /\ [][NextFunctions]_vars

\* C15: get_closest_face returns None for an empty list; for a non-empty
\* list it returns an element at minimal distance from the origin, the first
\* such element of the list when several are at that distance.
C15_ClosestFace ==
    call.fn = "get_closest_face" =>
        LET faces == call.args[1]
        IN  IF faces = <<>> THEN call.result = None
            ELSE \E i \in DOMAIN faces :
                    /\ call.result = faces[i]
                    /\ \A j \in DOMAIN faces : Norm2(faces[i]) <= Norm2(faces[j])
                    /\ \A j \in 1..(i - 1) : Norm2(faces[i]) < Norm2(faces[j])

\* C15 witness: three faces, the second and the third at the same minimal
\* distance, the second returned.
C15_Witness ==
    /\ call.fn = "get_closest_face"
    /\ Len(call.args[1]) = 3
    /\ Norm2(call.args[1][2]) = Norm2(call.args[1][3])
    /\ Norm2(call.args[1][2]) < Norm2(call.args[1][1])
    /\ call.args[1][2] # call.args[1][3]
    /\ call.result = call.args[1][2]

\* a clamped into [lo, hi]
Clamped(a, lo, hi) == IF RLt(a, lo) THEN lo ELSE IF RLt(hi, a) THEN hi ELSE a

\* C16: for angle_min <= angle_max, both in [-90, 90], and every raw angle,
\* transform_angle_to_servo returns clamp(raw) + 90, which lies in
\* [angle_min + 90, angle_max + 90] and so in [0, 180]; it is raw + 90 when
\* angle_min <= raw <= angle_max.
C16_ServoAngleInRange ==
    call.fn = "transform_angle_to_servo" =>
        LET raw == call.args[1]
            lo == call.args[2]
            hi == call.args[3]
        IN  (RLeq(lo, hi) /\ RLeq(R(-90), lo) /\ RLeq(hi, R(90))) =>
                /\ call.result = RAdd(Clamped(raw, lo, hi), R(90))
                /\ RLeq(RAdd(lo, R(90)), call.result)
                /\ RLeq(call.result, RAdd(hi, R(90)))
                /\ InServoRange(call.result)
                /\ (RLeq(lo, raw) /\ RLeq(raw, hi)) => call.result = RAdd(raw, R(90))

\* C16 witness: a raw angle above angle_max = 65 is returned as 155.
C16_Witness ==
    /\ call.fn = "transform_angle_to_servo"
    /\ call.args[2] = R(-65) /\ call.args[3] = R(65)
    /\ RLt(R(65), call.args[1])
    /\ call.result = R(155)

\* C17: clamp idempotence: for every angle a and bounds lo <= hi,
\* apply_safety_limits(apply_safety_limits(a, lo, hi), lo, hi) equals
\* apply_safety_limits(a, lo, hi).
C17_ClampIdempotent ==
    call.fn = "apply_safety_limits" =>
        (RLeq(call.args[2], call.args[3]) =>
            apply_safety_limits(call.result, call.args[2], call.args[3]) = call.result)

\* C17 witness: an angle outside the bounds was clamped to a bound.
C17_Witness ==
    /\ call.fn = "apply_safety_limits"
    /\ RLt(call.args[2], call.args[3])
    /\ RLt(call.args[1], call.args[2])
    /\ call.result = call.args[2]

\* C18: when a published message is lost, or none is published, no servo
\* angle changes (outside a handler nothing writes a servo: each servo keeps
\* the last angle written) and the actuation node still handles the next
\* message (the state of the handler is as it was).
C18_LostMessageHoldsPosition ==
    [][(calls' = calls /\ active = <<>>) =>
            (angle' = angle /\ writes' = writes /\ UNCHANGED actuation_vars)]_vars

\* C18 witness: a message was lost, no servo has moved, and the next message
\* waits to be handled.
C18_Witness ==
    /\ dropped > 0
    /\ calls = 0
    /\ channel # <<>>
    /\ \A k \in DOMAIN angle : angle[k] = None

\* C19: for every unit position and orientation, a target at the unit's
\* position plus a positive distance along the unit's local +z axis yields
\* pan = 0 and tilt = 0 (orientations that are multiples of 90 degrees).
C19_TargetOnAxisIsCentred ==
    call.fn = "compute_pan_tilt_angles" =>
        ((\E d \in Distances :
            call.args[1] = on_local_z_axis(call.args[2], call.args[3], d))
         => call.result = <<R(0), R(0)>>)

\* C19 witness: a unit away from the origin, pitched by 90 and rolled by 180
\* degrees, looks at a target two units along its axis.
C19_Witness ==
    /\ call.fn = "compute_pan_tilt_angles"
    /\ call.args[2] = <<-1, 2, 3>>
    /\ call.args[3] = <<180, 90, 0>>
    /\ call.args[1] = on_local_z_axis(call.args[2], call.args[3], 2)
    /\ call.args[1] # <<-1, 2, 5>>
    /\ call.result = <<R(0), R(0)>>

\* The distance the count of the last call was computed from, and its step.
CallDistance ==
    IF call.fn = "servo_steps" THEN RAbs(RSub(call.args[2], call.args[1]))
    ELSE RMax(RAbs(RSub(call.args[1], call.args[3])), RAbs(RSub(call.args[2], call.args[4])))

CallStep == IF call.fn = "servo_steps" THEN call.args[3] ELSE call.args[5]

IsStepCall == call.fn \in {"servo_steps", "smooth_transition_max_steps"}

\* n is max(1, round(dist / step)); at a tie either neighbour counts as round.
IsRoundedCount(n, dist, step) ==
    /\ n >= 1
    /\ \/ RLeq(RMulInt(RAbs(RSub(R(n * step), dist)), 2), R(step))
       \/ n = 1 /\ RLeq(RMulInt(dist, 2), R(step))

\* n is max(1, floor(dist / step))
IsTruncatedCount(n, dist, step) ==
    /\ n >= 1
    /\ \/ RLeq(R(n * step), dist) /\ RLt(dist, R((n + 1) * step))
       \/ n = 1 /\ RLt(dist, R(step))

\* C20: the step count of the motion drivers is
\* max(1, round(|target - current| / step_size)) for every start angle,
\* target and step size, in move_multiple_servos and in smooth_transition.
C20_StepCountRounded ==
    IsStepCall => IsRoundedCount(call.result, CallDistance, CallStep)

\* C20 as the code has it: the step count is
\* max(1, floor(|target - current| / step_size)), the quotient being
\* truncated by int() in move_multiple_servos and by // in smooth_transition
\* (where the distance is the largest over the servos of the call).
C20_StepCountTruncated ==
    IsStepCall => IsTruncatedCount(call.result, CallDistance, CallStep)

\* C20 witness: from 0 to 8/3 with step 1 move_multiple_servos counts 2
\* steps, where rounding gives 3.
C20_Witness ==
    /\ call.fn = "servo_steps"
    /\ call.args = <<R(0), Rat(8, 3), 1>>
    /\ call.result = 2
    /\ ~ IsRoundedCount(call.result, CallDistance, CallStep)

\* a lies in the closed interval between s and t, whichever is larger.
Between(a, s, t) == RLeq(RMin(s, t), a) /\ RLeq(a, RMax(s, t))

\* A step in which on_message ran move_multiple_servos, to its end or up to a
\* write that raised.
BatchRan == calls' = calls + 1 /\ outcome' \in {"completed", "move_error"}

====
